---- MODULE Spec2Model ----
(***************************************************************************)
(* A model of pykv/server.py: a replicated key-value store.  Every node    *)
(* runs main(): it replays kv.log, optionally bootstraps from a seed,      *)
(* starts the gossip node, the replication listener thread, the            *)
(* replication broadcaster thread and then one handle_client thread per    *)
(* accepted client connection.  All threads of a node share the dict kv,   *)
(* the file object kv_log and the queue replication_log, with no lock.     *)
(*                                                                         *)
(* Representation of text.  A Python str is modelled by the list of its    *)
(* pieces between single spaces, i.e. by the value of s.split(" "); the    *)
(* empty string is <<"">>, "set  1" is <<"set", "", "1">>.  A piece is a   *)
(* TLA+ string without spaces.  The newline written to the log is the      *)
(* chunk NL.                                                               *)
(***************************************************************************)
EXTENDS Naturals, Sequences, FiniteSets, TLC

\* ------------------------------------------------------------- bounds
\* Inputs of one behaviour, over all nodes: the commands and closes of
\* clients and the messages sent to a replication port from outside.
MaxInputs == 2

\* ----------------------------------------------------------- universe
\* X is started without --seed-port; Y is started with X's port as seed.
Node == {"X", "Y"}
NoSeed == "-"
Seed == [n \in Node |-> IF n = "Y" THEN "X" ELSE NoSeed]
\* handle_client threads of a node: client-0 and client-1.
Client == {0, 1}
\* kv.get(key) of a missing key.
None == "None"
\* The marker sent for an unknown command.
Reject == "REJECT"
OK == "OK"
\* No frame sent yet.
NoResp == ""
Empty == <<"">>
NL == <<>>
Ext == "ext"

Peer == Node \cup {Ext}

\* What a client may send on its connection.
ClientCmds ==
  { <<"set", "a", "2">>, <<"set", "a", "3">>, <<"set", "b", "2">>,
    <<"set", "", "1">>, <<"get", "a">>,
    <<"set", "a">>, <<"get", "a", "b">>, <<"ping">> }

\* The commands the second connection of a node sends.
SecondCmds ==
  { <<"set", "a", "3">>, <<"set", "b", "2">>, <<"get", "a">> }

\* What something other than a modelled broadcaster may send to a
\* replication port.
ExtMsgs == { <<"set", "a">>, <<"ping">>, <<"Bootstrap">>, <<"set", "b", "2">> }

\* The two-node runs: clients send well-formed writes of the two keys
\* the seed holds, and the outside sends a write that lacks its value.
ClusterCmds ==
  { <<"set", "a", "2">>, <<"set", "a", "3">>, <<"set", "b", "2">> }
ClusterExt == { <<"set", "a">> }

\* kv.log as an earlier run of the node left it.  A node alone starts
\* with nothing, with the lines of two accepted client writes, or with
\* those of one write and of one bootstrap request served.  In the
\* two-node runs both nodes have run before.
NodeLogs ==
  { <<>>,
    << <<"set", "a", "1">>, NL, <<"set", "b", "1">>, NL >>,
    << <<"set", "a", "1">>, NL, <<"bootstrap">>, NL >> }
ClusterLogs ==
  [ X |-> << <<"set", "a", "1">>, NL, <<"set", "b", "1">>, NL >>,
    Y |-> << <<"set", "b", "2">>, NL, <<"set", "c", "3">>, NL >> ]

\* --------------------------------------------------------------- text
\* s.startswith(w + " ")
StartsWithWord(s, w) == Len(s) >= 2 /\ s[1] = w

\* s.lower(), piece by piece, for the pieces of the universe.
LowerPiece(p) == IF p \in {"Bootstrap", "BOOTSTRAP"} THEN "bootstrap" ELSE p
lower(s) == [i \in 1..Len(s) |-> LowerPiece(s[i])]

\* is_bootstrap: cmd.lower().startswith("bootstrap").  "bootstrap" holds no
\* space, so it is a prefix of the first piece.
is_bootstrap(cmd) == lower(cmd)[1] \in {"bootstrap"}

\* s.split(): pieces between runs of whitespace, no empty piece.
split_ws(s) == SelectSeq(s, LAMBDA p : p # "")

\* s + t
Concat(s, t) ==
  SubSeq(s, 1, Len(s) - 1) \o <<s[Len(s)] \o t[1]>> \o Tail(t)

\* f"set {k} {v}"
SetText(k, v) == <<"set", k, v>>

\* The lines a sequential read of a file yields: the text between
\* newlines, and a last unterminated line when it is not empty.
RECURSIVE LinesFrom(_, _)
LinesFrom(chunks, cur) ==
  IF chunks = <<>>
    THEN IF cur = Empty THEN <<>> ELSE <<cur>>
    ELSE IF Head(chunks) = NL
           THEN <<cur>> \o LinesFrom(Tail(chunks), Empty)
           ELSE LinesFrom(Tail(chunks), Concat(cur, Head(chunks)))
FileLines(file) == LinesFrom(file, Empty)

\* --------------------------------------------------------------- dict
\* A dict is the sequence of its <<key, value>> items in insertion order.
Keys(d) == {d[i][1] : i \in DOMAIN d}
Items(d) == {d[i] : i \in DOMAIN d}
DictGet(d, k) ==
  IF k \in Keys(d)
    THEN (CHOOSE it \in Items(d) : it[1] = k)[2]
    ELSE None

\* d.setdefault(k, v): a store that keeps the value a key already has.
DictSetNew(d, k, v) ==
  IF k \in Keys(d) THEN d ELSE Append(d, <<k, v>>)

\* A store that adds an entry on every assignment, overwriting nothing.
DictSetDup(d, k, v) ==
  Append(d, <<k, v>>)

\* A store whose assignment adds to the value the key has.
DictSetAdd(d, k, v) ==
  IF k \in Keys(d)
    THEN [i \in DOMAIN d |-> IF d[i][1] = k THEN <<k, d[i][2] \o v>> ELSE d[i]]
    ELSE Append(d, <<k, v>>)

\* d[k] = v: an existing key keeps its place, a new key goes last.
DictSet(d, k, v) ==
  IF k \in Keys(d)
    THEN [i \in DOMAIN d |-> IF d[i][1] = k THEN <<k, v>> ELSE d[i]]
    ELSE Append(d, <<k, v>>)

\* An update that keeps the value of a key the dict already has.
RECURSIVE DictUpdateKeep(_, _)
DictUpdateKeep(d, e) ==
  IF e = <<>> THEN d
  ELSE DictUpdateKeep(DictSetNew(d, Head(e)[1], Head(e)[2]), Tail(e))

\* d.update(e), and dict(pairs) as the update of an empty dict.
RECURSIVE DictUpdate(_, _)
DictUpdate(d, e) ==
  IF e = <<>> THEN d
  ELSE DictUpdate(DictSet(d, Head(e)[1], Head(e)[2]), Tail(e))
DictOf(pairs) == DictUpdate(<<>>, pairs)

\* ------------------------------------------------------------ parsing
\* restore_from_file: every line must unpack into three pieces.
Parses(line) == Len(split_ws(line)) = 3
PairOf(line) == <<split_ws(line)[2], split_ws(line)[3]>>
AllParse(lines) == \A i \in DOMAIN lines : Parses(lines[i])
restore_ok(file) == AllParse(FileLines(file))
restore_from_file(file) ==
  DictOf([i \in DOMAIN FileLines(file) |-> PairOf(FileLines(file)[i])])

\* read_kv: the same unpacking of one received frame.
read_kv(frame) == PairOf(frame)

\* -------------------------------------------------------------- state
VARIABLES
  mpc,       \* [Node -> position of main()]
  kv,        \* [Node -> the dict kv]
  disk,      \* [Node -> content of kv.log that reached the file]
  buf,       \* [Node -> writes to kv_log not flushed yet]
  queue,     \* [Node -> replication_log]
  handler,   \* [Node -> [Client -> a handle_client thread]]
  bcast,     \* [Node -> the replication_broadcast_loop thread]
  lsn,       \* [Node -> the replication_listen_loop thread]
  inbox,     \* [Node -> connections made to the replication port, not accepted yet]
  chan,      \* [Peer -> what a listener has sent in answer to the peer's bootstrap request]
  peers,     \* [Node -> the peers the gossip node yields]
  nin,       \* inputs so far
  raw,       \* [Node -> [Client -> the thread's last write, while no one else wrote the key]]
  written,   \* [Node -> keys assigned so far]
  deliv,     \* [Node -> writes a broadcaster delivered, while no one else wrote the key]
  snaps,     \* [Peer -> the item sets the serving kv went through while the peer's bootstrap request was served]
  failed,    \* [Node -> a delivery of the node's broadcaster has failed]
  accepted,  \* [Node -> the client sets in the order of their assignments to kv]
  put,       \* [Node -> what was put on replication_log, in order]
  taken,     \* [Node -> what the broadcaster got from replication_log, in order]
  applied    \* [Node -> the propagated sets the listener applied, in order]

vars == <<mpc, kv, disk, buf, queue, handler, bcast, lsn, inbox, chan,
          peers, nin, raw, written, deliv, snaps, failed,
          accepted, put, taken, applied>>

NoWrite == <<>>

HandlerOff == [pc |-> "off", data |-> Empty, resp |-> NoResp]
BcastOff == [pc |-> "off", data |-> Empty, todo |-> <<>>]
LsnOff == [pc |-> "off", cmd |-> Empty, from |-> Ext, size |-> 0, pos |-> 0]
ChanNew == [count |-> 0, counted |-> FALSE, frames |-> <<>>]

Started(logs, up) ==
  /\ mpc = [n \in Node |-> IF n \in up THEN "init" ELSE "off"]
  /\ kv = [n \in Node |-> <<>>]
  /\ disk = logs
  /\ buf = [n \in Node |-> <<>>]
  /\ queue = [n \in Node |-> <<>>]
  /\ handler = [n \in Node |-> [c \in Client |-> HandlerOff]]
  /\ bcast = [n \in Node |-> BcastOff]
  /\ lsn = [n \in Node |-> LsnOff]
  /\ inbox = [n \in Node |-> <<>>]
  /\ chan = [p \in Peer |-> ChanNew]
  /\ peers = [n \in Node |-> {}]
  /\ nin = 0
  /\ raw = [n \in Node |-> [c \in Client |-> NoWrite]]
  /\ written = [n \in Node |-> {}]
  /\ deliv = [n \in Node |-> {}]
  /\ snaps = [p \in Peer |-> {}]
  /\ failed = [n \in Node |-> FALSE]
  /\ accepted = [n \in Node |-> <<>>]
  /\ put = [n \in Node |-> <<>>]
  /\ taken = [n \in Node |-> <<>>]
  /\ applied = [n \in Node |-> <<>>]

\* Both nodes are launched, Y with X as its seed.
Init == Started(ClusterLogs, Node)

\* X is launched alone.
InitNode ==
  \E log \in NodeLogs :
    Started([n \in Node |-> IF n = "X" THEN log ELSE <<>>], {"X"})

\* The listener of n is inside the loop that answers a bootstrap request.
Serving(n) == lsn[n].pc \in {"serve", "s_nl", "s_flush"}

\* The replication socket of p is bound and its thread runs.
Listening(p) == lsn[p].pc = "accept" \/ Serving(p)

\* Bookkeeping of an assignment kv[k] = v at node n by one of the threads
\* w (a client's, or none for the listener): the other threads' last
\* writes of k and the delivered writes of k are no longer the latest.
Others(n, w, k) ==
  [c \in Client |->
     IF c \in w \/ raw[n][c] = NoWrite \/ raw[n][c][1] # k
       THEN raw[n][c] ELSE NoWrite]
Undelivered(n, k) == {d \in deliv[n] : d[1] # k}

\* --------------------------------------------------------------- main
\* kv = restore_from_file()
Restore(n) ==
  /\ mpc[n] = "init"
  /\ restore_ok(disk[n])
  /\ kv' = [kv EXCEPT ![n] = restore_from_file(disk[n])]
  /\ written' = [written EXCEPT ![n] = Keys(kv'[n])]
  /\ mpc' = [mpc EXCEPT ![n] = "restored"]
  /\ UNCHANGED <<disk, buf, queue, handler, bcast, lsn, inbox, chan, peers,
                 nin, raw, deliv, snaps, failed,
                 accepted, put, taken, applied>>

\* A line that does not unpack raises ValueError out of main.
RestoreError(n) ==
  /\ mpc[n] = "init"
  /\ ~restore_ok(disk[n])
  /\ mpc' = [mpc EXCEPT ![n] = "dead"]
  /\ UNCHANGED <<kv, disk, buf, queue, handler, bcast, lsn, inbox, chan,
                 peers, nin, raw, written, deliv, snaps, failed,
                 accepted, put, taken, applied>>

\* bootstrap_kv: connect to the seed and send "bootstrap".
BootstrapConnect(n) ==
  /\ mpc[n] = "restored"
  /\ Seed[n] # NoSeed
  /\ Listening(Seed[n])
  /\ inbox' = [inbox EXCEPT ![Seed[n]] =
                 Append(@, [from |-> n, text |-> <<"bootstrap">>])]
  /\ mpc' = [mpc EXCEPT ![n] = "bootwait"]
  /\ UNCHANGED <<kv, disk, buf, queue, handler, bcast, lsn, chan, peers,
                 nin, raw, written, deliv, snaps, failed,
                 accepted, put, taken, applied>>

\* The connect is refused: the exception leaves main.
BootstrapRefused(n) ==
  /\ mpc[n] = "restored"
  /\ Seed[n] # NoSeed
  /\ ~Listening(Seed[n])
  /\ mpc' = [mpc EXCEPT ![n] = "dead"]
  /\ UNCHANGED <<kv, disk, buf, queue, handler, bcast, lsn, inbox, chan,
                 peers, nin, raw, written, deliv, snaps, failed,
                 accepted, put, taken, applied>>

\* The frames bootstrap_kv reads: the first n after the count.
Received(n) == SubSeq(chan[n].frames, 1, chan[n].count)
Complete(n) == chan[n].counted /\ Len(chan[n].frames) >= chan[n].count

\* n = read_uint32(sock); dict(read_kv(sock) for _ in range(n)); kv.update
BootstrapFinish(n) ==
  /\ mpc[n] = "bootwait"
  /\ Complete(n)
  /\ AllParse(Received(n))
  /\ kv' = [kv EXCEPT ![n] =
              DictUpdate(@, DictOf([i \in DOMAIN Received(n) |->
                                      read_kv(Received(n)[i])]))]
  /\ written' = [written EXCEPT ![n] = Keys(kv'[n])]
  /\ mpc' = [mpc EXCEPT ![n] = "booted"]
  /\ UNCHANGED <<disk, buf, queue, handler, bcast, lsn, inbox, chan, peers,
                 nin, raw, deliv, snaps, failed,
                 accepted, put, taken, applied>>

\* A frame that does not unpack, or the seed's end closed before the
\* frames came: the exception leaves main.
BootstrapError(n) ==
  /\ mpc[n] = "bootwait"
  /\ \/ Complete(n) /\ ~AllParse(Received(n))
     \/ ~Complete(n) /\ lsn[Seed[n]].pc = "dead"
  /\ mpc' = [mpc EXCEPT ![n] = "dead"]
  /\ UNCHANGED <<kv, disk, buf, queue, handler, bcast, lsn, inbox, chan,
                 peers, nin, raw, written, deliv, snaps, failed,
                 accepted, put, taken, applied>>

\* kv_log = open("kv.log", "a"); GossipNode(...); seed(seed_port); start()
GossipStart(n) ==
  /\ \/ mpc[n] = "restored" /\ Seed[n] = NoSeed
     \/ mpc[n] = "booted"
  /\ mpc' = [mpc EXCEPT ![n] = "gossip"]
  /\ peers' = [peers EXCEPT ![n] = IF Seed[n] = NoSeed THEN {} ELSE {Seed[n]}]
  /\ UNCHANGED <<kv, disk, buf, queue, handler, bcast, lsn, inbox, chan,
                 nin, raw, written, deliv, snaps, failed,
                 accepted, put, taken, applied>>

GossipUp(n) == mpc[n] \in {"gossip", "listening", "serving"}

\* The gossip node of n comes to know m, which knows n.
GossipLearn(n, m) ==
  /\ n # m
  /\ GossipUp(n) /\ GossipUp(m)
  /\ n \in peers[m]
  /\ m \notin peers[n]
  /\ peers' = [peers EXCEPT ![n] = @ \cup {m}]
  /\ UNCHANGED <<mpc, kv, disk, buf, queue, handler, bcast, lsn, inbox, chan,
                 nin, raw, written, deliv, snaps, failed,
                 accepted, put, taken, applied>>

\* Thread(target=replication_listen_loop).start(): bind and listen.
StartListener(n) ==
  /\ mpc[n] = "gossip"
  /\ mpc' = [mpc EXCEPT ![n] = "listening"]
  /\ lsn' = [lsn EXCEPT ![n].pc = "accept"]
  /\ UNCHANGED <<kv, disk, buf, queue, handler, bcast, inbox, chan, peers,
                 nin, raw, written, deliv, snaps, failed,
                 accepted, put, taken, applied>>

\* Thread(target=replication_broadcast_loop).start(); sock.bind; sock.listen
StartServing(n) ==
  /\ mpc[n] = "listening"
  /\ mpc' = [mpc EXCEPT ![n] = "serving"]
  /\ bcast' = [bcast EXCEPT ![n].pc = "get"]
  /\ UNCHANGED <<kv, disk, buf, queue, handler, lsn, inbox, chan, peers,
                 nin, raw, written, deliv, snaps, failed,
                 accepted, put, taken, applied>>

\* A main that binds the client socket and accepts before it restores
\* and bootstraps.
AcceptEarly(n, c) ==
  /\ mpc[n] \notin {"off", "dead"}
  /\ handler[n][c].pc = "off"
  /\ \A b \in Client : b < c => handler[n][b].pc # "off"
  /\ handler' = [handler EXCEPT ![n][c].pc = "read"]
  /\ UNCHANGED <<mpc, kv, disk, buf, queue, bcast, lsn, inbox, chan, peers,
                 nin, raw, written, deliv, snaps, failed,
                 accepted, put, taken, applied>>

\* sock.accept(); Thread(target=handle_client, name=f"client-{i}").start()
Accept(n, c) ==
  /\ mpc[n] = "serving"
  /\ handler[n][c].pc = "off"
  /\ \A b \in Client : b < c => handler[n][b].pc # "off"
  /\ handler' = [handler EXCEPT ![n][c].pc = "read"]
  /\ UNCHANGED <<mpc, kv, disk, buf, queue, bcast, lsn, inbox, chan, peers,
                 nin, raw, written, deliv, snaps, failed,
                 accepted, put, taken, applied>>

\* ------------------------------------------------------ handle_client
Reading(n, c, cmd) ==
  /\ handler[n][c].pc = "read"
  /\ nin < MaxInputs
  /\ cmd \in IF c = 0 THEN ClientCmds ELSE SecondCmds

\* data.startswith("set "): _, key, val = data.split(" "); kv[key] = val;
\* send_str(client_sock, "OK")
HandleSet(n, c, cmd) ==
  /\ Reading(n, c, cmd)
  /\ StartsWithWord(cmd, "set")
  /\ Len(cmd) = 3
  /\ kv' = [kv EXCEPT ![n] = DictSet(@, cmd[2], cmd[3])]
  /\ handler' = [handler EXCEPT ![n][c] =
                   [pc |-> "write", data |-> cmd, resp |-> OK]]
  /\ nin' = nin + 1
  /\ raw' = [raw EXCEPT ![n] =
               [Others(n, {c}, cmd[2]) EXCEPT ![c] = <<cmd[2], cmd[3]>>]]
  /\ written' = [written EXCEPT ![n] = @ \cup {cmd[2]}]
  /\ deliv' = [deliv EXCEPT ![n] = Undelivered(n, cmd[2])]
  /\ snaps' = IF Serving(n)
                THEN [snaps EXCEPT ![lsn[n].from] = @ \cup {Items(kv'[n])}]
                ELSE snaps
  /\ accepted' = [accepted EXCEPT ![n] = Append(@, cmd)]
  /\ UNCHANGED <<mpc, disk, buf, queue, bcast, lsn, inbox, chan, peers,
                 failed, put, taken, applied>>

\* data.startswith("get "): _, key = data.split(" "); send_str(kv.get(key))
HandleGet(n, c, cmd) ==
  /\ Reading(n, c, cmd)
  /\ ~StartsWithWord(cmd, "set")
  /\ StartsWithWord(cmd, "get")
  /\ Len(cmd) = 2
  /\ handler' = [handler EXCEPT ![n][c] =
                   [pc |-> "read", data |-> cmd,
                    resp |-> DictGet(kv[n], cmd[2])]]
  /\ nin' = nin + 1
  /\ UNCHANGED <<mpc, kv, disk, buf, queue, bcast, lsn, inbox, chan, peers,
                 raw, written, deliv, snaps, failed,
                 accepted, put, taken, applied>>

\* The unpacking of data.split(" ") raises ValueError: the thread ends.
HandleUnpackError(n, c, cmd) ==
  /\ Reading(n, c, cmd)
  /\ \/ StartsWithWord(cmd, "set") /\ Len(cmd) # 3
     \/ ~StartsWithWord(cmd, "set") /\ StartsWithWord(cmd, "get")
          /\ Len(cmd) # 2
  /\ handler' = [handler EXCEPT ![n][c] =
                   [pc |-> "dead", data |-> cmd, resp |-> NoResp]]
  /\ nin' = nin + 1
  /\ UNCHANGED <<mpc, kv, disk, buf, queue, bcast, lsn, inbox, chan, peers,
                 raw, written, deliv, snaps, failed,
                 accepted, put, taken, applied>>

\* An else branch that passes what it does not recognise on to the peers.
HandleOtherPut(n, c, cmd) ==
  /\ Reading(n, c, cmd)
  /\ ~StartsWithWord(cmd, "set")
  /\ ~StartsWithWord(cmd, "get")
  /\ handler' = [handler EXCEPT ![n][c] =
                   [pc |-> "read", data |-> cmd, resp |-> Reject]]
  /\ nin' = nin + 1
  /\ queue' = [queue EXCEPT ![n] = Append(@, cmd)]
  /\ UNCHANGED <<mpc, kv, disk, buf, bcast, lsn, inbox, chan, peers,
                 raw, written, deliv, snaps, failed,
                 accepted, put, taken, applied>>

\* else: send_str(client_sock, marker)
HandleOther(n, c, cmd) ==
  /\ Reading(n, c, cmd)
  /\ ~StartsWithWord(cmd, "set")
  /\ ~StartsWithWord(cmd, "get")
  /\ handler' = [handler EXCEPT ![n][c] =
                   [pc |-> "read", data |-> cmd, resp |-> Reject]]
  /\ nin' = nin + 1
  /\ UNCHANGED <<mpc, kv, disk, buf, queue, bcast, lsn, inbox, chan, peers,
                 raw, written, deliv, snaps, failed,
                 accepted, put, taken, applied>>

\* n is None: break
HandleEOF(n, c) ==
  /\ handler[n][c].pc = "read"
  /\ nin < MaxInputs
  /\ handler' = [handler EXCEPT ![n][c].pc = "done"]
  /\ nin' = nin + 1
  /\ UNCHANGED <<mpc, kv, disk, buf, queue, bcast, lsn, inbox, chan, peers,
                 raw, written, deliv, snaps, failed,
                 accepted, put, taken, applied>>

\* kv_log.write(data)
LogWrite(n, c) ==
  /\ handler[n][c].pc = "write"
  /\ buf' = [buf EXCEPT ![n] = Append(@, handler[n][c].data)]
  /\ handler' = [handler EXCEPT ![n][c].pc = "nl"]
  /\ UNCHANGED <<mpc, kv, disk, queue, bcast, lsn, inbox, chan, peers,
                 nin, raw, written, deliv, snaps, failed,
                 accepted, put, taken, applied>>

\* kv_log.write("\n")
LogNewline(n, c) ==
  /\ handler[n][c].pc = "nl"
  /\ buf' = [buf EXCEPT ![n] = Append(@, NL)]
  /\ handler' = [handler EXCEPT ![n][c].pc = "flush"]
  /\ UNCHANGED <<mpc, kv, disk, queue, bcast, lsn, inbox, chan, peers,
                 nin, raw, written, deliv, snaps, failed,
                 accepted, put, taken, applied>>

\* kv_log.flush(): everything written so far reaches the file.
LogFlush(n, c) ==
  /\ handler[n][c].pc = "flush"
  /\ disk' = [disk EXCEPT ![n] = @ \o buf[n]]
  /\ buf' = [buf EXCEPT ![n] = <<>>]
  /\ handler' = [handler EXCEPT ![n][c].pc = "put"]
  /\ UNCHANGED <<mpc, kv, queue, bcast, lsn, inbox, chan, peers,
                 nin, raw, written, deliv, snaps, failed,
                 accepted, put, taken, applied>>

\* replication_log.put(data)
Enqueue(n, c) ==
  /\ handler[n][c].pc = "put"
  /\ queue' = [queue EXCEPT ![n] = Append(@, handler[n][c].data)]
  /\ handler' = [handler EXCEPT ![n][c].pc = "read"]
  /\ put' = [put EXCEPT ![n] = Append(@, handler[n][c].data)]
  /\ UNCHANGED <<mpc, kv, disk, buf, bcast, lsn, inbox, chan, peers, nin,
                 raw, written, deliv, snaps, failed, accepted, taken,
                 applied>>

\* ------------------------------------------ replication_broadcast_loop
\* The orders in which iterating the gossip node may yield its peers.
Orderings(S) ==
  {s \in [1..Cardinality(S) -> S] : \A i, j \in DOMAIN s : i # j => s[i] # s[j]}

\* A broadcaster that takes the newest item of the queue.
BcastGetLast(n) ==
  /\ bcast[n].pc = "get"
  /\ queue[n] # <<>>
  /\ \E order \in Orderings(peers[n]) :
       bcast' = [bcast EXCEPT ![n] =
                   [pc |-> IF order = <<>> THEN "get" ELSE "send",
                    data |-> queue[n][Len(queue[n])], todo |-> order]]
  /\ queue' = [queue EXCEPT ![n] = SubSeq(@, 1, Len(@) - 1)]
  /\ taken' = [taken EXCEPT ![n] = Append(@, queue[n][Len(queue[n])])]
  /\ UNCHANGED <<mpc, kv, disk, buf, handler, lsn, inbox, chan, peers, nin,
                 raw, written, deliv, snaps, failed, accepted, put,
                 applied>>

\* data = replication_log.get(); peers = [peer for peer in gossip_node]
BcastGet(n) ==
  /\ bcast[n].pc = "get"
  /\ queue[n] # <<>>
  /\ \E order \in Orderings(peers[n]) :
       bcast' = [bcast EXCEPT ![n] =
                   [pc |-> IF order = <<>> THEN "get" ELSE "send",
                    data |-> Head(queue[n]), todo |-> order]]
  /\ queue' = [queue EXCEPT ![n] = Tail(@)]
  /\ taken' = [taken EXCEPT ![n] = Append(@, Head(queue[n]))]
  /\ UNCHANGED <<mpc, kv, disk, buf, handler, lsn, inbox, chan, peers, nin,
                 raw, written, deliv, snaps, failed, accepted, put,
                 applied>>

\* A delivery that the peer's listener accepts before the ones that wait.
BcastSendFront(n) ==
  /\ bcast[n].pc = "send"
  /\ Listening(Head(bcast[n].todo))
  /\ inbox' = [inbox EXCEPT ![Head(bcast[n].todo)] =
                 <<[from |-> n, text |-> bcast[n].data]>> \o @]
  /\ deliv' = [deliv EXCEPT ![Head(bcast[n].todo)] =
                 @ \cup {<<bcast[n].data[2], bcast[n].data[3]>>}]
  /\ bcast' = [bcast EXCEPT
                 ![n].todo = Tail(@),
                 ![n].pc = IF Tail(bcast[n].todo) = <<>> THEN "get" ELSE "send"]
  /\ UNCHANGED <<mpc, kv, disk, buf, queue, handler, lsn, chan, peers,
                 nin, raw, written, snaps, failed,
                 accepted, put, taken, applied>>

\* sock = one_off_socket(p); send_str(sock, data); sock.close()
BcastSend(n) ==
  /\ bcast[n].pc = "send"
  /\ Listening(Head(bcast[n].todo))
  /\ inbox' = [inbox EXCEPT ![Head(bcast[n].todo)] =
                 Append(@, [from |-> n, text |-> bcast[n].data])]
  /\ deliv' = [deliv EXCEPT ![Head(bcast[n].todo)] =
                 @ \cup {<<bcast[n].data[2], bcast[n].data[3]>>}]
  /\ bcast' = [bcast EXCEPT
                 ![n].todo = Tail(@),
                 ![n].pc = IF Tail(bcast[n].todo) = <<>> THEN "get" ELSE "send"]
  /\ UNCHANGED <<mpc, kv, disk, buf, queue, handler, lsn, chan, peers,
                 nin, raw, written, snaps, failed,
                 accepted, put, taken, applied>>

\* sock.connect raises: nothing catches it and the thread ends.
BcastRefused(n) ==
  /\ bcast[n].pc = "send"
  /\ ~Listening(Head(bcast[n].todo))
  /\ bcast' = [bcast EXCEPT ![n].pc = "dead"]
  /\ failed' = [failed EXCEPT ![n] = TRUE]
  /\ UNCHANGED <<mpc, kv, disk, buf, queue, handler, lsn, inbox, chan, peers,
                 nin, raw, written, deliv, snaps,
                 accepted, put, taken, applied>>

\* ---------------------------------------------- replication_listen_loop
\* Something else connects to the replication port and sends one message.
ExtMessage(n, m) ==
  /\ Listening(n)
  /\ nin < MaxInputs
  /\ m \in ExtMsgs
  /\ inbox' = [inbox EXCEPT ![n] = Append(@, [from |-> Ext, text |-> m])]
  /\ nin' = nin + 1
  /\ UNCHANGED <<mpc, kv, disk, buf, queue, handler, bcast, lsn, chan, peers,
                 raw, written, deliv, snaps, failed,
                 accepted, put, taken, applied>>

Accepting(n) == lsn[n].pc = "accept" /\ inbox[n] # <<>>
Msg(n) == Head(inbox[n])

\* is_bootstrap(cmd): send_uint32(peer_sock, len(kv))
ListenBootstrap(n) ==
  /\ Accepting(n)
  /\ is_bootstrap(Msg(n).text)
  /\ inbox' = [inbox EXCEPT ![n] = Tail(@)]
  /\ lsn' = [lsn EXCEPT ![n] =
               [pc |-> "serve", cmd |-> Msg(n).text, from |-> Msg(n).from,
                size |-> 0, pos |-> 0]]
  /\ chan' = [chan EXCEPT ![Msg(n).from] =
                [count |-> Len(kv[n]), counted |-> TRUE, frames |-> <<>>]]
  /\ snaps' = [snaps EXCEPT ![Msg(n).from] = {Items(kv[n])}]
  /\ UNCHANGED <<mpc, kv, disk, buf, queue, handler, bcast, peers,
                 nin, raw, written, deliv, failed,
                 accepted, put, taken, applied>>

\* The dict iterator of kv.items(): made by the first step of the loop,
\* with the size the dict has then.
IterSize(n) == IF lsn[n].pos = 0 THEN Len(kv[n]) ELSE lsn[n].size
IterPos(n) == IF lsn[n].pos = 0 THEN 1 ELSE lsn[n].pos

\* for k, v in kv.items(): send_str(peer_sock, f"set {k} {v}");
\* kv_log.write(cmd)
ServeItem(n) ==
  /\ lsn[n].pc = "serve"
  /\ Len(kv[n]) = IterSize(n)
  /\ IterPos(n) <= Len(kv[n])
  /\ chan' = [chan EXCEPT ![lsn[n].from].frames =
                Append(@, SetText(kv[n][IterPos(n)][1],
                                  kv[n][IterPos(n)][2]))]
  /\ buf' = [buf EXCEPT ![n] = Append(@, lsn[n].cmd)]
  /\ lsn' = [lsn EXCEPT ![n].pc = "s_nl", ![n].size = IterSize(n),
                        ![n].pos = IterPos(n) + 1]
  /\ UNCHANGED <<mpc, kv, disk, queue, handler, bcast, inbox, peers,
                 nin, raw, written, deliv, snaps, failed,
                 accepted, put, taken, applied>>

\* kv_log.write("\n")
ServeNewline(n) ==
  /\ lsn[n].pc = "s_nl"
  /\ buf' = [buf EXCEPT ![n] = Append(@, NL)]
  /\ lsn' = [lsn EXCEPT ![n].pc = "s_flush"]
  /\ UNCHANGED <<mpc, kv, disk, queue, handler, bcast, inbox, chan, peers,
                 nin, raw, written, deliv, snaps, failed,
                 accepted, put, taken, applied>>

\* kv_log.flush()
ServeFlush(n) ==
  /\ lsn[n].pc = "s_flush"
  /\ disk' = [disk EXCEPT ![n] = @ \o buf[n]]
  /\ buf' = [buf EXCEPT ![n] = <<>>]
  /\ lsn' = [lsn EXCEPT ![n].pc = "serve"]
  /\ UNCHANGED <<mpc, kv, queue, handler, bcast, inbox, chan, peers,
                 nin, raw, written, deliv, snaps, failed,
                 accepted, put, taken, applied>>

\* The iterator is exhausted: continue
ServeDone(n) ==
  /\ lsn[n].pc = "serve"
  /\ Len(kv[n]) = IterSize(n)
  /\ IterPos(n) > Len(kv[n])
  /\ lsn' = [lsn EXCEPT ![n] = [LsnOff EXCEPT !.pc = "accept"]]
  /\ UNCHANGED <<mpc, kv, disk, buf, queue, handler, bcast, inbox, chan,
                 peers, nin, raw, written, deliv, snaps, failed,
                 accepted, put, taken, applied>>

\* "dictionary changed size during iteration": RuntimeError ends the
\* thread, and with it the listening socket and what waits on it.
ServeChanged(n) ==
  /\ lsn[n].pc = "serve"
  /\ Len(kv[n]) # IterSize(n)
  /\ lsn' = [lsn EXCEPT ![n].pc = "dead"]
  /\ inbox' = [inbox EXCEPT ![n] = <<>>]
  /\ UNCHANGED <<mpc, kv, disk, buf, queue, handler, bcast, chan, peers,
                 nin, raw, written, deliv, snaps, failed,
                 accepted, put, taken, applied>>

\* not cmd.startswith("set "): print("wtf", cmd); continue
ListenIgnore(n) ==
  /\ Accepting(n)
  /\ ~is_bootstrap(Msg(n).text)
  /\ ~StartsWithWord(Msg(n).text, "set")
  /\ inbox' = [inbox EXCEPT ![n] = Tail(@)]
  /\ lsn' = [lsn EXCEPT ![n].cmd = Msg(n).text, ![n].from = Msg(n).from]
  /\ UNCHANGED <<mpc, kv, disk, buf, queue, handler, bcast, chan, peers,
                 nin, raw, written, deliv, snaps, failed,
                 accepted, put, taken, applied>>

\* chunks = cmd.split(" "); assert len(chunks) == 3 fails: the thread ends.
ListenAssert(n) ==
  /\ Accepting(n)
  /\ ~is_bootstrap(Msg(n).text)
  /\ StartsWithWord(Msg(n).text, "set")
  /\ Len(Msg(n).text) # 3
  /\ lsn' = [lsn EXCEPT ![n].pc = "dead", ![n].cmd = Msg(n).text,
                        ![n].from = Msg(n).from]
  /\ inbox' = [inbox EXCEPT ![n] = <<>>]
  /\ UNCHANGED <<mpc, kv, disk, buf, queue, handler, bcast, chan, peers,
                 nin, raw, written, deliv, snaps, failed,
                 accepted, put, taken, applied>>

\* A listener that puts what it applies on its own replication_log.
ListenApplyFlood(n) ==
  /\ Accepting(n)
  /\ ~is_bootstrap(Msg(n).text)
  /\ StartsWithWord(Msg(n).text, "set")
  /\ Len(Msg(n).text) = 3
  /\ kv' = [kv EXCEPT ![n] = DictSet(@, Msg(n).text[2], Msg(n).text[3])]
  /\ inbox' = [inbox EXCEPT ![n] = Tail(@)]
  /\ queue' = [queue EXCEPT ![n] = Append(@, Msg(n).text)]
  /\ lsn' = [lsn EXCEPT ![n].cmd = Msg(n).text, ![n].from = Msg(n).from]
  /\ raw' = [raw EXCEPT ![n] = Others(n, {}, Msg(n).text[2])]
  /\ written' = [written EXCEPT ![n] = @ \cup {Msg(n).text[2]}]
  /\ deliv' = [deliv EXCEPT ![n] =
                 Undelivered(n, Msg(n).text[2]) \cup
                 (IF Msg(n).from \in Node
                    THEN {<<Msg(n).text[2], Msg(n).text[3]>>} \cap deliv[n]
                    ELSE {})]
  /\ applied' = [applied EXCEPT ![n] = Append(@, Msg(n))]
  /\ UNCHANGED <<mpc, disk, buf, handler, bcast, chan, peers, nin,
                 snaps, failed, accepted, put, taken>>

\* _, key, val = chunks; kv[key] = val
ListenApply(n) ==
  /\ Accepting(n)
  /\ ~is_bootstrap(Msg(n).text)
  /\ StartsWithWord(Msg(n).text, "set")
  /\ Len(Msg(n).text) = 3
  /\ kv' = [kv EXCEPT ![n] = DictSet(@, Msg(n).text[2], Msg(n).text[3])]
  /\ inbox' = [inbox EXCEPT ![n] = Tail(@)]
  /\ lsn' = [lsn EXCEPT ![n].cmd = Msg(n).text, ![n].from = Msg(n).from]
  /\ raw' = [raw EXCEPT ![n] = Others(n, {}, Msg(n).text[2])]
  /\ written' = [written EXCEPT ![n] = @ \cup {Msg(n).text[2]}]
  /\ deliv' = [deliv EXCEPT ![n] =
                 Undelivered(n, Msg(n).text[2]) \cup
                 (IF Msg(n).from \in Node
                    THEN {<<Msg(n).text[2], Msg(n).text[3]>>} \cap deliv[n]
                    ELSE {})]
  /\ applied' = [applied EXCEPT ![n] = Append(@, Msg(n))]
  /\ UNCHANGED <<mpc, disk, buf, queue, handler, bcast, chan, peers, nin,
                 snaps, failed, accepted, put, taken>>

\* ---------------------------------------------------------------- spec
\* Two nodes, one client connection each.
Next ==
  \/ \E n \in Node :
       \/ Restore(n)
       \/ BootstrapConnect(n) \/ BootstrapRefused(n)
       \/ BootstrapFinish(n) \/ BootstrapError(n)
       \/ GossipStart(n) \/ StartListener(n) \/ StartServing(n)
       \/ BcastGet(n) \/ BcastSend(n) \/ BcastRefused(n)
       \/ ListenBootstrap(n) \/ ServeItem(n) \/ ServeNewline(n)
       \/ ServeFlush(n) \/ ServeDone(n)
       \/ ListenAssert(n) \/ ListenApply(n)
       \/ Accept(n, 0)
       \/ LogWrite(n, 0) \/ LogNewline(n, 0) \/ LogFlush(n, 0)
       \/ Enqueue(n, 0)
  \/ \E n, m \in Node : GossipLearn(n, m)
  \/ \E n \in Node, m \in ClusterExt : ExtMessage(n, m)
  \/ \E n \in Node, cmd \in ClusterCmds : HandleSet(n, 0, cmd)

Spec == Init /\ [][Next]_vars

\* One node, two client connections, every kind of input.
NextNode ==
  \/ \E n \in {"X"} :
       \/ Restore(n) \/ RestoreError(n)
       \/ GossipStart(n) \/ StartListener(n) \/ StartServing(n)
       \/ BcastGet(n)
       \/ ListenBootstrap(n) \/ ServeItem(n) \/ ServeNewline(n)
       \/ ServeFlush(n) \/ ServeDone(n) \/ ServeChanged(n)
       \/ ListenIgnore(n) \/ ListenAssert(n) \/ ListenApply(n)
  \/ \E n \in {"X"}, m \in ExtMsgs : ExtMessage(n, m)
  \/ \E n \in {"X"}, c \in Client :
       \/ Accept(n, c) \/ HandleEOF(n, c)
       \/ LogWrite(n, c) \/ LogNewline(n, c) \/ LogFlush(n, c)
       \/ Enqueue(n, c)
  \/ \E n \in {"X"}, c \in Client, cmd \in ClientCmds :
       \/ HandleSet(n, c, cmd) \/ HandleGet(n, c, cmd)
       \/ HandleUnpackError(n, c, cmd) \/ HandleOther(n, c, cmd)

SpecNode == InitNode /\ [][NextNode]_vars

\* ------------------------------------------------------------- claims
\* The node has opened kv_log and runs.
Up(n) == mpc[n] \in {"gossip", "listening", "serving"}

LineSet(file) == {FileLines(file)[i] : i \in DOMAIN FileLines(file)}

\* A thread of n is between its assignment to kv and the flush of the
\* line it writes, or something written waits for a flush.
MidWrite(n) ==
  \/ \E c \in Client : handler[n][c].pc \in {"write", "nl", "flush"}
  \/ lsn[n].pc \in {"s_nl", "s_flush"}
  \/ buf[n] # <<>>

\* The command does not unpack into the pieces its branch expects.
Malformed(cmd) ==
  \/ StartsWithWord(cmd, "set") /\ Len(cmd) # 3
  \/ ~StartsWithWord(cmd, "set") /\ StartsWithWord(cmd, "get") /\ Len(cmd) # 2

\* C1: durability before acknowledgement.  Whenever a client has been
\* sent "OK" for a write, the line of that write is in the flushed log.
C1_DurableBeforeAck ==
  \A n \in Node, c \in Client :
    handler[n][c].resp = OK => handler[n][c].data \in LineSet(disk[n])

\* C2: crash recovery.  Whenever no write of a running node is under way,
\* replaying its log completes and gives the store the node holds.
C2_CrashRecovery ==
  \A n \in Node :
    Up(n) /\ ~MidWrite(n) =>
      /\ restore_ok(disk[n])
      /\ Items(restore_from_file(disk[n])) = Items(kv[n])

\* The write d, delivered by a broadcaster, waits at the listener of p.
Pending(p, d) ==
  \E i \in DOMAIN inbox[p] :
    inbox[p][i].from \in Node /\ inbox[p][i].text = SetText(d[1], d[2])

\* C3: convergence.  A write delivered to p whose key no one else wrote
\* since is in p's store, or a running listener of p still has it to
\* apply.
C3_Convergence ==
  \A p \in Node : \A d \in deliv[p] :
    \/ DictGet(kv[p], d[1]) = d[2]
    \/ Listening(p) /\ Pending(p, d)

\* C4: bootstrap correctness.  When bootstrap has completed, the joiner
\* holds every item of the seed's store as it was at one moment of the
\* serving of the request: no key missing, no stale or torn value.
C4_BootstrapSnapshot ==
  \A n \in Node :
    mpc[n] = "booted" => \E s \in snaps[n] : s \subseteq Items(kv[n])

\* A running node at rest whose log no longer replays: restore_from_file
\* raises on one of its lines.
C2_ReplayRaises ==
  \E n \in Node : Up(n) /\ ~MidWrite(n) /\ ~restore_ok(disk[n])

\* The thread answered "get k" last, after its own write of k that no one
\* else has overwritten.
ReadOwnWrite(n, c) ==
  /\ handler[n][c].pc = "read"
  /\ StartsWithWord(handler[n][c].data, "get")
  /\ Len(handler[n][c].data) = 2
  /\ raw[n][c] # NoWrite
  /\ raw[n][c][1] = handler[n][c].data[2]

\* C5: read after write on one node.  A get of k answered after the
\* client's set of k, with no other write of k in between, returns the
\* value set.
C5_ReadAfterWrite ==
  \A n \in Node, c \in Client :
    ReadOwnWrite(n, c) => handler[n][c].resp = raw[n][c][2]

C5_Witness ==
  \E n \in Node, c \in Client :
    ReadOwnWrite(n, c) /\ handler[n][c].resp = "2"

\* C6: isolation under concurrency.  Every handler's write of a key no
\* other thread wrote is in the store with its value, every key is held
\* once, and the store holds as many keys as were ever assigned.
C6_Isolation ==
  \A n \in Node :
    /\ \A c \in Client :
         raw[n][c] # NoWrite => DictGet(kv[n], raw[n][c][1]) = raw[n][c][2]
    /\ Cardinality(Keys(kv[n])) = Len(kv[n])
    /\ Len(kv[n]) = Cardinality(written[n])

\* Both handlers are past their assignment and before their log line is
\* flushed, with distinct keys, one of them new to the store.
C6_Witness ==
  \E n \in Node :
    /\ \A c \in Client :
         raw[n][c] # NoWrite /\ handler[n][c].pc \in {"write", "nl", "flush"}
    /\ raw[n][0][1] # raw[n][1][1]
    /\ Len(kv[n]) = 3

\* C7: broadcaster failure isolation.  After a delivery has failed the
\* broadcaster loop still runs.
C7_BroadcasterSurvives ==
  \A n \in Node : failed[n] => bcast[n].pc # "dead"

\* C8: malformed client commands are not fatal.  After a command with
\* the wrong number of pieces the handler has answered with the marker
\* and still runs.
C8_MalformedRejected ==
  \A n \in Node, c \in Client :
    Malformed(handler[n][c].data) =>
      handler[n][c].resp = Reject /\ handler[n][c].pc # "dead"

\* C9: replication listener robustness.  After a message that is neither
\* a bootstrap request nor a well-formed set the listener still runs.
C9_ListenerSurvives ==
  \A n \in Node :
    /\ lsn[n].cmd # Empty
    /\ ~is_bootstrap(lsn[n].cmd)
    /\ ~(StartsWithWord(lsn[n].cmd, "set") /\ Len(lsn[n].cmd) = 3)
    => lsn[n].pc # "dead"

\* C10: durable log format.  Every line of the log is "set <key> <value>"
\* and unpacks on replay.
C10_LogFormat ==
  \A n \in Node : \A l \in LineSet(disk[n]) :
    Len(l) = 3 /\ l[1] = "set" /\ Parses(l)

\* C11: startup ordering.  A node with a seed has client connections
\* only when it serves, and then the replay of its log and its bootstrap
\* have completed: the count and every entry of the snapshot were read,
\* every entry unpacked and its key is in the Store.  A node whose
\* startup failed has no client connection and never leaves that state.
C11_StartupOrdering ==
  /\ [](\A n \in Node :
          /\ (Seed[n] # NoSeed /\ \E c \in Client : handler[n][c].pc # "off")
               => /\ mpc[n] = "serving"
                  /\ restore_ok(ClusterLogs[n])
                  /\ Complete(n) /\ AllParse(Received(n))
                  /\ \A i \in DOMAIN Received(n) :
                       read_kv(Received(n)[i])[1] \in written[n]
          /\ mpc[n] = "dead" => \A c \in Client : handler[n][c].pc = "off")
  /\ [][\A n \in Node : mpc[n] = "dead" => mpc'[n] = "dead"]_vars

\* The joiner has a client connection.
C11_Witness ==
  \E n \in Node : Seed[n] # NoSeed /\ handler[n][0].pc # "off"

\* C12: unrecognized client input has no effect on state.  The step that
\* handles a message starting with neither "set " nor "get " answers with
\* the rejection marker and leaves the Store, the log (file and unflushed
\* writes) and the replication queue as they were.
C12_OtherInputFrame ==
  [][\A n \in Node, c \in Client :
       (\E cmd \in ClientCmds : HandleOther(n, c, cmd)) =>
         /\ handler'[n][c].resp = Reject
         /\ handler'[n][c].pc = "read"
         /\ kv' = kv /\ disk' = disk /\ buf' = buf /\ queue' = queue]_vars

\* A handler has answered "ping" with the marker on a node that holds
\* data.
C12_Witness ==
  \E n \in Node, c \in Client :
    /\ handler[n][c].resp = Reject
    /\ handler[n][c].data = <<"ping">>
    /\ kv[n] # <<>>

\* C13: idempotence of replication apply.  After the listener has
\* applied "set k v", applying the same message again would give the
\* Store it has given; an application touches neither the log nor the
\* queue, so a second one leaves them as the first did.
C13_ApplyIdempotent ==
  [][\A n \in Node :
       ListenApply(n) =>
         /\ DictSet(kv'[n], Msg(n).text[2], Msg(n).text[3]) = kv'[n]
         /\ (applied[n] # <<>> /\ applied[n][Len(applied[n])] = Msg(n)
               /\ DictGet(kv[n], Msg(n).text[2]) = Msg(n).text[3])
              => kv'[n] = kv[n]
         /\ disk' = disk /\ buf' = buf /\ queue' = queue]_vars

\* The listener has applied the same message twice in a row, to a Store
\* that held another value for the key.
C13_Witness ==
  \E n \in Node :
    /\ Len(applied[n]) = 2
    /\ applied[n][1] = applied[n][2]
    /\ Len(kv[n]) = 2
    /\ disk[n] # <<>>

\* The lines of a file that set k, as data.split(" ") unpacks them.
LinesOf(file, k) ==
  SelectSeq(FileLines(file),
            LAMBDA l : Len(l) = 3 /\ l[1] = "set" /\ l[2] = k)

\* The client sets of k in the order of their assignments to kv.
SetsOf(n, k) == SelectSeq(accepted[n], LAMBDA cmd : cmd[2] = k)

IsSuffix(s, t) ==
  Len(s) <= Len(t) /\ SubSeq(t, Len(t) - Len(s) + 1, Len(t)) = s

\* C14: log order is consistent with Store mutation order.  On a node
\* whose listener has handled nothing, once the client sets have
\* completed, the lines of every key end with the sets of that key in the
\* order in which they were assigned to the Store, and the last of them
\* carries the value the Store holds.
C14_LogOrder ==
  \A n \in Node :
    (lsn[n].cmd = Empty /\ ~MidWrite(n)) =>
      \A k \in {accepted[n][i][2] : i \in DOMAIN accepted[n]} :
        /\ IsSuffix(SetsOf(n, k), LinesOf(disk[n], k))
        /\ LinesOf(disk[n], k)[Len(LinesOf(disk[n], k))][3] = DictGet(kv[n], k)

\* Both sets of "a" have completed, the Store holds the value of the
\* second assignment and the log ends with the line of the first.
C14_Reordered ==
  \E n \in Node :
    /\ lsn[n].cmd = Empty /\ ~MidWrite(n)
    /\ accepted[n] = << <<"set", "a", "2">>, <<"set", "a", "3">> >>
    /\ DictGet(kv[n], "a") = "3"
    /\ IsSuffix(<< <<"set", "a", "3">>, <<"set", "a", "2">> >>,
                FileLines(disk[n]))

\* The entries a listener has sent to p after the count.
SentEntries(p) == {chan[p].frames[i] : i \in DOMAIN chan[p].frames}

\* C15: snapshot consistency of the bootstrap response.  Once a listener
\* is through with the bootstrap request of p, the count it sent first is
\* the number of entries it sent after it, and the entries are the items
\* the Store held at one instant of the serving.
C15_SnapshotConsistent ==
  \A p \in Peer :
    (chan[p].counted /\ ~\E n \in Node : Serving(n) /\ lsn[n].from = p) =>
      /\ Len(chan[p].frames) = chan[p].count
      /\ \E s \in snaps[p] :
           SentEntries(p) = {SetText(it[1], it[2]) : it \in s}

\* C16: no re-flooding.  The step in which the listener applies a
\* propagated "set key value" gives the key the value, leaves every other
\* key of the Store, the log and the replication queue as they were; and
\* at all times what a node has put on its queue are sets its own clients
\* sent.
C16_NoReflooding ==
  /\ [][\A n \in Node :
          ListenApply(n) =>
            /\ DictGet(kv'[n], Msg(n).text[2]) = Msg(n).text[3]
            /\ \A k \in (Keys(kv[n]) \cup Keys(kv'[n])) \ {Msg(n).text[2]} :
                 DictGet(kv'[n], k) = DictGet(kv[n], k)
            /\ queue' = queue /\ put' = put
            /\ disk' = disk /\ buf' = buf]_vars
  /\ [](\A n \in Node :
          /\ Len(put[n]) <= Len(accepted[n])
          /\ \A i \in DOMAIN put[n] :
               \E j \in DOMAIN accepted[n] : put[n][i] = accepted[n][j])

\* A listener has applied a write its peer's broadcaster sent, on a node
\* whose clients have sent nothing.
C16_Witness ==
  \E n \in Node :
    /\ applied[n] # <<>>
    /\ applied[n][1].from \in Node
    /\ accepted[n] = <<>>
    /\ DictGet(kv[n], applied[n][1].text[2]) = applied[n][1].text[3]

\* The handler threads of n that have assigned a set to kv and have not
\* put it on replication_log yet.
InFlight(n) ==
  {c \in Client : handler[n][c].pc \in {"write", "nl", "flush", "put"}}

Count(s, x) == Len(SelectSeq(s, LAMBDA e : e = x))

SeedPairs(n) == [i \in DOMAIN Received(n) |-> read_kv(Received(n)[i])]

\* C18: bootstrap merge semantics.  When main has merged the snapshot,
\* every key of the snapshot has the seed's value in the joiner's Store,
\* every key that only the joiner's replayed log has keeps the replayed
\* value, and the Store has no other key.
C18_BootstrapMerge ==
  \A n \in Node :
    mpc[n] = "booted" =>
      /\ \A i \in DOMAIN SeedPairs(n) :
           DictGet(kv[n], SeedPairs(n)[i][1]) = SeedPairs(n)[i][2]
      /\ \A k \in Keys(restore_from_file(disk[n])) :
           k \notin {SeedPairs(n)[i][1] : i \in DOMAIN SeedPairs(n)} =>
             DictGet(kv[n], k) = DictGet(restore_from_file(disk[n]), k)
      /\ Keys(kv[n]) =
           Keys(restore_from_file(disk[n]))
             \cup {SeedPairs(n)[i][1] : i \in DOMAIN SeedPairs(n)}

\* The joiner has merged: "b", which its log set to 2, has the seed's 1,
\* and "c", which the seed does not have, has the 3 of the log.
C18_Witness ==
  \E n \in Node :
    /\ mpc[n] = "booted"
    /\ DictGet(kv[n], "b") = "1"
    /\ DictGet(kv[n], "c") = "3"
    /\ DictGet(kv[n], "a") # None

\* C19: logged before broadcast.  Every entry that was put on the
\* replication queue of a node, whether it waits there or was taken and
\* sent, has its line in the node's log.
C19_LoggedBeforeBroadcast ==
  \A n \in Node : \A i \in DOMAIN put[n] : put[n][i] \in LineSet(disk[n])

\* The sets the listener of p applied that the broadcaster of n sent.
AppliedFrom(p, n) ==
  [i \in DOMAIN SelectSeq(applied[p], LAMBDA m : m.from = n) |->
     SelectSeq(applied[p], LAMBDA m : m.from = n)[i].text]

\* The sets of n's broadcaster that wait for the listener of p.
Broadcast(n, m) == m.from = n /\ ~is_bootstrap(m.text)
PendingFrom(p, n) ==
  [i \in DOMAIN SelectSeq(inbox[p], LAMBDA m : Broadcast(n, m)) |->
     SelectSeq(inbox[p], LAMBDA m : Broadcast(n, m))[i].text]

\* The propagated sets of k the listener of p applied, from anyone.
AppliedOf(p, k) == SelectSeq(applied[p], LAMBDA m : m.text[2] = k)

RECURSIVE IsSubSeq(_, _)
IsSubSeq(s, t) ==
  IF s = <<>> THEN TRUE
  ELSE IF t = <<>> THEN FALSE
  ELSE IF Head(s) = Head(t) THEN IsSubSeq(Tail(s), Tail(t))
  ELSE IsSubSeq(s, Tail(t))

====
